---------------------------- MODULE Spec2Model ----------------------------
(***************************************************************************)
(* A model of the AgriShield-AI repository:                                *)
(*   - src/ml/train_plantvillage.py, the two-phase training script, run    *)
(*     top to bottom as a state machine whose program counter is pc;       *)
(*   - src/backend/main.py, the FastAPI liveness service.                  *)
(* The script is a sequence of calls into Keras; each call is modelled by  *)
(* what the library does at that call (image_dataset_from_directory,       *)
(* EarlyStopping, ModelCheckpoint, Model.fit).                             *)
(***************************************************************************)
EXTENDS Integers, Sequences, FiniteSets, TLC

(***************************************************************************)
(* Bounds of the model.                                                    *)
(***************************************************************************)
\* class directories are named 1..MaxClasses (sorted numerically, as the
\* library sorts directory names)
MaxClasses == 3
\* the OS listing order of the image files is explored exhaustively for
\* datasets of at most MaxFiles image files
MaxFiles == 5
\* small per-class file counts, next to the documented counts 10, 20, 30
MaxCount == 2
\* EPOCHS ranges over 0..MaxEpochs
MaxEpochs == 5
\* EPOCHS_FINE ranges over 0..MaxEpochsFine
MaxEpochsFine == 4
\* validation accuracy of an epoch ranges over 0..MaxAcc
MaxAcc == 1
\* epochs per phase where the dataset, not the training, is varied
SmokeEpochs == 1
\* images per class directory where the directory listing is varied
ImagesPerClass == 5
\* requests served by the liveness service
MaxRequests == 6

(***************************************************************************)
(* Program constants.                                                      *)
(***************************************************************************)
TrainSeed == 123
\* faulty variant: the validation call is given another seed
ValSeedOther == 123 + 1
ValSeed == 123
PATIENCE == 3

VARIABLES
    \* ---- environment of the training script
    dirExists,      \* os.path.isdir(DATA_DIR)
    dirs,           \* class subdirectories of DATA_DIR, in OS listing order
    nfiles,         \* nfiles[c]: regular files in class directory c
    nimages,        \* nimages[c]: those of them with an image extension
    EPOCHS,         \* int(os.environ["EPOCHS"])
    EPOCHS_FINE,    \* int(os.environ["EPOCHS_FINE"])
    restoreAtEnd,   \* the installed Keras restores best weights in
                    \* on_train_end (Keras 3) or only at the stop (tf.keras 2)
    \* ---- script state
    pc,             \* position in the script
    phase,          \* the fit last entered: 0 (none), 1 (head-only), 2 (fine-tune)
    train_ds,       \* [class_names, samples] of the training subset
    val_ds,         \* [class_names, samples] of the validation subset
    class_names,
    num_classes,
    base_model,     \* [exists, trainable]
    model,          \* [exists, units, weights, optimizer, compiled_trainable,
                    \*  stop_training]
    es,             \* the EarlyStopping callback object
    mc,             \* the ModelCheckpoint callback object
    counts,
    total,
    class_weight,
    epoch,          \* epochs run so far by the current fit
    history,        \* history[p]: val_accuracy per epoch of fit p
    writes,         \* the files written, in order
    stdout,
    exit_code,      \* -1 while running
    \* ---- liveness service
    requests,       \* paths requested so far
    response        \* the last response

scriptVars == <<dirExists, dirs, nfiles, nimages, EPOCHS, EPOCHS_FINE, restoreAtEnd,
                pc, phase, train_ds, val_ds, class_names, num_classes,
                base_model, model, es, mc, counts, total, class_weight, epoch,
                history, writes, stdout, exit_code>>
envVars == <<dirExists, dirs, nfiles, nimages, EPOCHS, EPOCHS_FINE, restoreAtEnd>>
apiVars == <<requests, response>>
vars == <<scriptVars, apiVars>>

(***************************************************************************)
(* Helpers.                                                                *)
(***************************************************************************)
Range(s) == {s[i] : i \in 1..Len(s)}

Max2(a, b) == IF a >= b THEN a ELSE b

RECURSIVE SumTo(_, _)
SumTo(s, n) == IF n = 0 THEN 0 ELSE s[n] + SumTo(s, n - 1)

RECURSIVE Gcd(_, _)
Gcd(a, b) == IF b = 0 THEN a ELSE Gcd(b, a % b)

\* all orderings of a finite set, as sequences
RECURSIVE Perms(_)
Perms(S) ==
    IF S = {} THEN {<<>>}
    ELSE UNION {{<<x>> \o p : p \in Perms(S \ {x})} : x \in S}

\* 1-based position of x in s (x occurs in s)
IndexOf(s, x) == CHOOSE i \in 1..Len(s) : s[i] = x

None == <<>>
NegInf == -1


(***************************************************************************)
(* The dataset on disk.  An image file is <<class directory, number>>; the *)
(* loader sees the image files only, line 87 counts every regular file.    *)
(***************************************************************************)
RECURSIVE ListDir(_, _)
\* the image files of class directory d, <<d,1>> .. <<d,n>>
ListDir(d, n) == IF n = 0 THEN <<>> ELSE Append(ListDir(d, n - 1), <<d, n>>)

RECURSIVE Walk(_)
\* one listing of the whole tree: directory after directory, as listed
Walk(ds) == IF ds = <<>> THEN <<>> ELSE ListDir(Head(ds), nimages[Head(ds)]) \o Walk(Tail(ds))

Files == Range(Walk(dirs))

\* The orders in which the OS may list the image files to one loader call:
\* every order for a dataset of at most MaxFiles files, one order beyond.
FileOrders == IF Cardinality(Files) <= MaxFiles THEN Perms(Files) ELSE {Walk(dirs)}

(***************************************************************************)
(* image_dataset_from_directory, as called at lines 20-38: index the       *)
(* directory (sorted class names, sorted files, label = class index),      *)
(* shuffle with a generator seeded afresh by the call, keep one subset.    *)
(***************************************************************************)
FileLess(a, b) == a[1] < b[1] \/ (a[1] = b[1] /\ a[2] < b[2])

IntLess(a, b) == a < b

\* sorted(listdir(directory)): the class names
SortedNames(listing) == SortSeq(listing, IntLess)

\* the files of every class directory, sorted, each with its integer label
IndexDirectory(listing, fileOrder) ==
    LET names == SortedNames(listing)
        paths == SortSeq(fileOrder, FileLess)
    IN  [i \in 1..Len(paths) |->
            [file |-> paths[i], label |-> IndexOf(names, paths[i][1]) - 1]]

\* the generator behind RandomState(seed): a linear congruential stand-in
NextRand(r) == (r * 7919 + 4663) % 65537

Swap(s, i, j) == [s EXCEPT ![i] = s[j], ![j] = s[i]]

RECURSIVE FisherYates(_, _, _)
FisherYates(s, i, r) ==
    IF i <= 1 THEN s
    ELSE FisherYates(Swap(s, i, (r % i) + 1), i - 1, NextRand(r))

\* rng = RandomState(seed); rng.shuffle(samples)
Shuffle(s, seed) == FisherYates(s, Len(s), NextRand(seed))

\* int(validation_split * len(samples)) with validation_split = 0.2
NumVal(n) == (2 * n) \div 10

\* samples[:-k] and samples[-k:] as Python slices them (k = 0 included)
SliceBeforeLast(s, k) == IF k = 0 THEN <<>> ELSE SubSeq(s, 1, Len(s) - k)
SliceLast(s, k) == IF k = 0 THEN s ELSE SubSeq(s, Len(s) - k + 1, Len(s))

TrainingSubset(samples) == SliceBeforeLast(samples, NumVal(Len(samples)))
ValidationSubset(samples) == SliceLast(samples, NumVal(Len(samples)))

\* the dataset object of the training call (lines 20-28)
LoadTraining(listing, fileOrder) ==
    [class_names |-> SortedNames(listing),
     samples |-> TrainingSubset(Shuffle(IndexDirectory(listing, fileOrder), TrainSeed))]

\* the dataset object of the validation call (lines 30-38)
LoadValidation(listing, fileOrder) ==
    [class_names |-> SortedNames(listing),
     samples |-> ValidationSubset(Shuffle(IndexDirectory(listing, fileOrder), ValSeed))]

NoDataset == [class_names |-> <<>>, samples |-> <<>>]

(***************************************************************************)
(* The script, top to bottom.                                              *)
(***************************************************************************)
\* an uncaught exception ends the interpreter with status 1
Crash ==
    /\ pc' = "exited"
    /\ exit_code' = 1

\* faulty variant: the diagnostic is printed but the script goes on (no sys.exit)
CheckDirNoExit ==
    /\ pc = "check_dir"
    /\ stdout' = IF dirExists THEN stdout
                 ELSE stdout \o <<"Missing dataset directory", "Set PLANTVILLAGE_DIR">>
    /\ pc' = "load_train"
    /\ UNCHANGED envVars
    /\ UNCHANGED <<phase, train_ds, val_ds, class_names, num_classes, base_model,
                   model, es, mc, counts, total, class_weight, epoch, history,
                   writes, exit_code>>
    /\ UNCHANGED apiVars

\* lines 15-18
CheckDir ==
    /\ pc = "check_dir"
    /\ IF dirExists
          THEN /\ pc' = "load_train"
               /\ UNCHANGED <<stdout, exit_code>>
          ELSE /\ stdout' = stdout \o <<"Missing dataset directory", "Set PLANTVILLAGE_DIR">>
               /\ exit_code' = 1
               /\ pc' = "exited"
    /\ UNCHANGED envVars
    /\ UNCHANGED <<phase, train_ds, val_ds, class_names, num_classes, base_model,
                   model, es, mc, counts, total, class_weight, epoch, history,
                   writes>>
    /\ UNCHANGED apiVars

\* lines 20-28; the loader raises ValueError when the subset holds no image
LoadTrain ==
    /\ pc = "load_train"
    /\ \E order \in FileOrders :
         LET ds == LoadTraining(dirs, order)
         IN  IF ds.samples = <<>>
               THEN Crash /\ UNCHANGED train_ds
               ELSE /\ train_ds' = ds
                    /\ pc' = "load_val"
                    /\ UNCHANGED exit_code
    /\ UNCHANGED envVars
    /\ UNCHANGED <<phase, val_ds, class_names, num_classes, base_model,
                   model, es, mc, counts, total, class_weight, epoch, history,
                   writes, stdout>>
    /\ UNCHANGED apiVars

\* lines 30-38
LoadVal ==
    /\ pc = "load_val"
    /\ \E order \in FileOrders :
         LET ds == LoadValidation(dirs, order)
         IN  IF ds.samples = <<>>
               THEN Crash /\ UNCHANGED val_ds
               ELSE /\ val_ds' = ds
                    /\ pc' = "class_names"
                    /\ UNCHANGED exit_code
    /\ UNCHANGED envVars
    /\ UNCHANGED <<phase, train_ds, class_names, num_classes, base_model,
                   model, es, mc, counts, total, class_weight, epoch, history,
                   writes, stdout>>
    /\ UNCHANGED apiVars

\* lines 40-41 (lines 44-45 rebind the datasets to cached, prefetched views
\* of the same samples)
ReadClassNames ==
    /\ pc = "class_names"
    /\ class_names' = train_ds.class_names
    /\ num_classes' = Len(train_ds.class_names)
    /\ pc' = "base_model"
    /\ UNCHANGED envVars
    /\ UNCHANGED <<phase, train_ds, val_ds, base_model,
                   model, es, mc, counts, total, class_weight, epoch, history,
                   writes, stdout, exit_code>>
    /\ UNCHANGED apiVars

\* line 55: a new layer is trainable
CreateBackbone ==
    /\ pc = "base_model"
    /\ base_model' = [exists |-> TRUE, trainable |-> TRUE]
    /\ pc' = "freeze"
    /\ UNCHANGED envVars
    /\ UNCHANGED <<phase, train_ds, val_ds, class_names, num_classes,
                   model, es, mc, counts, total, class_weight, epoch, history,
                   writes, stdout, exit_code>>
    /\ UNCHANGED apiVars

\* faulty variant: line 56 is missing
FreezeMissing ==
    /\ pc = "freeze"
    /\ pc' = "assemble"
    /\ UNCHANGED envVars
    /\ UNCHANGED <<phase, train_ds, val_ds, class_names, num_classes, base_model,
                   model, es, mc, counts, total, class_weight, epoch, history,
                   writes, stdout, exit_code>>
    /\ UNCHANGED apiVars

\* line 56
Freeze ==
    /\ pc = "freeze"
    /\ base_model' = [base_model EXCEPT !.trainable = FALSE]
    /\ pc' = "assemble"
    /\ UNCHANGED envVars
    /\ UNCHANGED <<phase, train_ds, val_ds, class_names, num_classes,
                   model, es, mc, counts, total, class_weight, epoch, history,
                   writes, stdout, exit_code>>
    /\ UNCHANGED apiVars

InitialWeights == <<0, 0>>

\* lines 58-65: the head ends in Dense(num_classes)
Assemble ==
    /\ pc = "assemble"
    /\ model' = [model EXCEPT !.exists = TRUE, !.units = num_classes,
                               !.weights = InitialWeights]
    /\ pc' = "compile"
    /\ UNCHANGED envVars
    /\ UNCHANGED <<phase, train_ds, val_ds, class_names, num_classes, base_model,
                   es, mc, counts, total, class_weight, epoch, history,
                   writes, stdout, exit_code>>
    /\ UNCHANGED apiVars

\* lines 67-73: compile fixes what the next fit trains
Compile ==
    /\ pc = "compile"
    /\ model' = [model EXCEPT !.optimizer = "adam_cosine_1e-3",
                               !.compiled_trainable = base_model.trainable]
    /\ pc' = "callbacks"
    /\ UNCHANGED envVars
    /\ UNCHANGED <<phase, train_ds, val_ds, class_names, num_classes, base_model,
                   es, mc, counts, total, class_weight, epoch, history,
                   writes, stdout, exit_code>>
    /\ UNCHANGED apiVars

\* EarlyStopping.__init__ and on_train_begin leave the callback in this state
NewEarlyStopping ==
    [wait |-> 0, stopped_epoch |-> 0, best |-> NegInf, best_weights |-> None,
     best_epoch |-> 0]

\* ModelCheckpoint.__init__: best starts at -inf once, at construction
NewModelCheckpoint == [best |-> NegInf]

\* lines 75-78: one list, passed to both fits
MakeCallbacks ==
    /\ pc = "callbacks"
    /\ es' = NewEarlyStopping
    /\ mc' = NewModelCheckpoint
    /\ pc' = "weights"
    /\ UNCHANGED envVars
    /\ UNCHANGED <<phase, train_ds, val_ds, class_names, num_classes, base_model,
                   model, counts, total, class_weight, epoch, history,
                   writes, stdout, exit_code>>
    /\ UNCHANGED apiVars

\* Python's a / b on ints, as the fraction in lowest terms; <<0, 0>> stands
\* for the ZeroDivisionError of b = 0
ZeroDivisionError == <<0, 0>>
TrueDiv(a, b) ==
    IF b = 0 THEN ZeroDivisionError
    ELSE LET g == Gcd(a, b) IN <<a \div g, b \div g>>

\* line 87: the regular files of DATA_DIR/name
CountFiles(name) == nfiles[name]

\* faulty variant: the count is not clamped to 1
ClassWeightUnclamped(tot, n, c) == TrueDiv(tot, n * c)

\* line 93
ClassWeight(tot, n, c) == TrueDiv(tot, n * Max2(c, 1))

\* lines 83-93
ComputeWeights ==
    /\ pc = "weights"
    /\ LET cs == [i \in 1..Len(class_names) |-> CountFiles(class_names[i])]
           tot == SumTo(cs, Len(cs))
           cw == [i \in 0..(Len(cs) - 1) |-> ClassWeight(tot, num_classes, cs[i + 1])]
       IN  /\ counts' = cs
           /\ total' = tot
           /\ IF \E i \in DOMAIN cw : cw[i] = ZeroDivisionError
                 THEN Crash /\ UNCHANGED class_weight
                 ELSE /\ class_weight' = cw
                      /\ pc' = "fit1"
                      /\ UNCHANGED exit_code
    /\ UNCHANGED envVars
    /\ UNCHANGED <<phase, train_ds, val_ds, class_names, num_classes, base_model,
                   model, es, mc, epoch, history,
                   writes, stdout>>
    /\ UNCHANGED apiVars

(***************************************************************************)
(* Model.fit with callbacks [EarlyStopping, ModelCheckpoint], lines 95-101 *)
(* and 111-117.  The weights an epoch leaves are named <<phase, epoch>>.   *)
(***************************************************************************)
Epochs(p) == IF p = 1 THEN EPOCHS ELSE EPOCHS_FINE

FitPc(p) == IF p = 1 THEN "fit1" ELSE "fit2"
EpochsPc(p) == IF p = 1 THEN "epochs1" ELSE "epochs2"
\* faulty variant: the export follows the first fit
AfterFitPcSkipsFineTune(p) == "save"
AfterFitPc(p) == IF p = 1 THEN "unfreeze" ELSE "save"

\* faulty variant: a tie counts as an improvement
IsImprovementOrTie(current, best) == current >= best

\* monitor="val_accuracy": np.greater, min_delta 0
IsImprovement(current, best) == current > best

\* EarlyStopping.on_epoch_end(ep, val_accuracy = acc), the model holding
\* weights w: the callback, the model's stop flag and the model's weights
EarlyStoppingOnEpochEnd(cb, ep, acc, w) ==
    LET held == IF cb.best_weights = None THEN w ELSE cb.best_weights
        wait == cb.wait + 1
    IN  IF IsImprovement(acc, cb.best)
          THEN [cb |-> [cb EXCEPT !.best = acc, !.best_epoch = ep,
                                  !.best_weights = w, !.wait = 0],
                stop |-> FALSE, weights |-> w]
          ELSE IF wait >= PATIENCE /\ ep > 0
                 THEN [cb |-> [cb EXCEPT !.wait = wait, !.best_weights = held,
                                         !.stopped_epoch = ep],
                       stop |-> TRUE,
                       weights |-> IF restoreAtEnd THEN w ELSE held]
                 ELSE [cb |-> [cb EXCEPT !.wait = wait, !.best_weights = held],
                       stop |-> FALSE, weights |-> w]

\* ModelCheckpoint.on_epoch_end with save_best_only: whether to save
CheckpointSaves(cb, acc) == IsImprovement(acc, cb.best)

\* a file written: its path and what it holds (a saved model holds the
\* weights and the backbone's trainable flag; the names file holds lines)
ModelFile(w, t) ==
    [path |-> "OUTPUT_PATH", weights |-> w, trainable |-> t, lines |-> <<>>]
\* faulty variant: the checkpoint is written to the output path
CheckpointFileAtOutputPath(w, t) ==
    [path |-> "OUTPUT_PATH", weights |-> w, trainable |-> t, lines |-> <<>>]
CheckpointFile(w, t) ==
    [path |-> "best_model.h5", weights |-> w, trainable |-> t, lines |-> <<>>]
NamesFile(names) ==
    [path |-> "class_names.txt", weights |-> None, trainable |-> FALSE, lines |-> names]

\* faulty variant: each fit starts with a new ModelCheckpoint
FitBeginNewCheckpoint(p) ==
    /\ pc = FitPc(p)
    /\ model' = [model EXCEPT !.stop_training = FALSE]
    /\ es' = NewEarlyStopping
    /\ mc' = NewModelCheckpoint
    /\ phase' = p
    /\ epoch' = 0
    /\ history' = [history EXCEPT ![p] = <<>>]
    /\ pc' = EpochsPc(p)
    /\ UNCHANGED envVars
    /\ UNCHANGED <<train_ds, val_ds, class_names, num_classes, base_model,
                   counts, total, class_weight,
                   writes, stdout, exit_code>>
    /\ UNCHANGED apiVars

\* fit begins: stop_training is cleared, on_train_begin resets EarlyStopping
\* (ModelCheckpoint keeps its best), a new History starts
FitBegin(p) ==
    /\ pc = FitPc(p)
    /\ model' = [model EXCEPT !.stop_training = FALSE]
    /\ es' = NewEarlyStopping
    /\ phase' = p
    /\ epoch' = 0
    /\ history' = [history EXCEPT ![p] = <<>>]
    /\ pc' = EpochsPc(p)
    /\ UNCHANGED envVars
    /\ UNCHANGED <<train_ds, val_ds, class_names, num_classes, base_model,
                   mc, counts, total, class_weight,
                   writes, stdout, exit_code>>
    /\ UNCHANGED apiVars

\* one epoch: train, validate, then on_epoch_end of each callback in order
Epoch(p) ==
    /\ pc = EpochsPc(p)
    /\ epoch < Epochs(p)
    /\ ~model.stop_training
    /\ \E acc \in 0..MaxAcc :
         LET trained == <<p, epoch + 1>>
             r == EarlyStoppingOnEpochEnd(es, epoch, acc, trained)
         IN  /\ es' = r.cb
             /\ model' = [model EXCEPT !.weights = r.weights,
                                        !.stop_training = r.stop]
             /\ IF CheckpointSaves(mc, acc)
                   THEN /\ mc' = [mc EXCEPT !.best = acc]
                        /\ writes' = Append(writes, CheckpointFile(r.weights, base_model.trainable))
                   ELSE UNCHANGED <<mc, writes>>
             /\ history' = [history EXCEPT ![p] = Append(@, acc)]
    /\ epoch' = epoch + 1
    /\ UNCHANGED pc
    /\ UNCHANGED envVars
    /\ UNCHANGED <<phase, train_ds, val_ds, class_names, num_classes, base_model,
                   counts, total, class_weight, stdout, exit_code>>
    /\ UNCHANGED apiVars

\* the loop ends (epochs exhausted, or stop_training); on_train_end
FitEnd(p) ==
    /\ pc = EpochsPc(p)
    /\ epoch >= Epochs(p) \/ model.stop_training
    /\ model' = IF restoreAtEnd /\ es.best_weights # None
                  THEN [model EXCEPT !.weights = es.best_weights]
                  ELSE model
    /\ pc' = AfterFitPc(p)
    /\ UNCHANGED envVars
    /\ UNCHANGED <<phase, train_ds, val_ds, class_names, num_classes, base_model,
                   es, mc, counts, total, class_weight, epoch, history,
                   writes, stdout, exit_code>>
    /\ UNCHANGED apiVars

\* line 103
Unfreeze ==
    /\ pc = "unfreeze"
    /\ base_model' = [base_model EXCEPT !.trainable = TRUE]
    /\ pc' = "recompile"
    /\ UNCHANGED envVars
    /\ UNCHANGED <<phase, train_ds, val_ds, class_names, num_classes,
                   model, es, mc, counts, total, class_weight, epoch, history,
                   writes, stdout, exit_code>>
    /\ UNCHANGED apiVars

\* lines 104-109
Recompile ==
    /\ pc = "recompile"
    /\ model' = [model EXCEPT !.optimizer = "adam_1e-5",
                               !.compiled_trainable = base_model.trainable]
    /\ pc' = "fit2"
    /\ UNCHANGED envVars
    /\ UNCHANGED <<phase, train_ds, val_ds, class_names, num_classes, base_model,
                   es, mc, counts, total, class_weight, epoch, history,
                   writes, stdout, exit_code>>
    /\ UNCHANGED apiVars

\* line 119
SaveModel ==
    /\ pc = "save"
    /\ writes' = Append(writes, ModelFile(model.weights, base_model.trainable))
    /\ pc' = "write_names"
    /\ UNCHANGED envVars
    /\ UNCHANGED <<phase, train_ds, val_ds, class_names, num_classes, base_model,
                   model, es, mc, counts, total, class_weight, epoch, history,
                   stdout, exit_code>>
    /\ UNCHANGED apiVars

\* faulty variant: the export lists the directory again instead of using class_names
ExportedNamesRelisted == dirs

\* the lines of class_names.txt, lines 122-123
ExportedNames == class_names

\* lines 121-123, then the script ends with status 0
WriteClassNames ==
    /\ pc = "write_names"
    /\ writes' = Append(writes, NamesFile(ExportedNames))
    /\ pc' = "exited"
    /\ exit_code' = 0
    /\ UNCHANGED envVars
    /\ UNCHANGED <<phase, train_ds, val_ds, class_names, num_classes, base_model,
                   model, es, mc, counts, total, class_weight, epoch, history,
                   stdout>>
    /\ UNCHANGED apiVars

ScriptNext ==
    \/ CheckDir
    \/ LoadTrain
    \/ LoadVal
    \/ ReadClassNames
    \/ CreateBackbone
    \/ Freeze
    \/ Assemble
    \/ Compile
    \/ MakeCallbacks
    \/ ComputeWeights
    \/ \E p \in {1, 2} : FitBegin(p) \/ Epoch(p) \/ FitEnd(p)
    \/ Unfreeze
    \/ Recompile
    \/ SaveModel
    \/ WriteClassNames

(***************************************************************************)
(* The liveness service, src/backend/main.py.                              *)
(***************************************************************************)
\* a JSON object is its set of <<key, value>> members
read_root == {<<"message", "Welcome to AgriShield AI Backend">>, <<"status", "active">>}

\* faulty variant: the health handler reports on the requests served so far
health_check_stateful ==
    IF Len(requests) > 2 THEN {<<"status", "degraded">>} ELSE {<<"status", "healthy">>}

health_check == {<<"status", "healthy">>}

\* the route table built by the @app.get decorators; a handler's return
\* value is sent as the JSON body of a 200 response
Route(path) == IF path = "/" THEN read_root ELSE health_check

Get(path) ==
    /\ Len(requests) < MaxRequests
    /\ requests' = Append(requests, path)
    /\ response' = [code |-> 200, body |-> Route(path)]
    /\ UNCHANGED scriptVars

ApiNext == Get("/") \/ Get("/health")

(***************************************************************************)
(* Initial states.                                                         *)
(***************************************************************************)
ApiInit ==
    /\ requests = <<>>
    /\ response = [code |-> 0, body |-> {}]

\* the script at its first line, in the environment given
ScriptInit(exists, data, e1, e2, flag) ==
    /\ dirExists \in exists
    /\ \E d \in data : dirs = d.dirs /\ nfiles = d.nfiles /\ nimages = d.nimages
    /\ EPOCHS \in e1
    /\ EPOCHS_FINE \in e2
    /\ restoreAtEnd \in flag
    /\ pc = "check_dir"
    /\ phase = 0
    /\ train_ds = NoDataset
    /\ val_ds = NoDataset
    /\ class_names = <<>>
    /\ num_classes = 0
    /\ base_model = [exists |-> FALSE, trainable |-> FALSE]
    /\ model = [exists |-> FALSE, units |-> 0, weights |-> None,
                optimizer |-> "none", compiled_trainable |-> FALSE,
                stop_training |-> FALSE]
    /\ es = NewEarlyStopping
    /\ mc = NewModelCheckpoint
    /\ counts = <<>>
    /\ total = 0
    /\ class_weight = <<>>
    /\ epoch = 0
    /\ history = [p \in {1, 2} |-> <<>>]
    /\ writes = <<>>
    /\ stdout = <<>>
    /\ exit_code = -1

\* the class directories present, in any order the OS may list them
AllListings == UNION {Perms(S) : S \in SUBSET (1..MaxClasses)}

FilesIn(listing, n) == [c \in 1..MaxClasses |-> IF c \in Range(listing) THEN n[c] ELSE 0]

\* every listing, ImagesPerClass images in each class directory
PipelineData ==
    {[dirs |-> l,
      nfiles |-> FilesIn(l, [c \in 1..MaxClasses |-> ImagesPerClass]),
      nimages |-> FilesIn(l, [c \in 1..MaxClasses |-> ImagesPerClass])] :
        l \in AllListings}

\* every listing of non-empty class directories, at most MaxFiles images
SplitData ==
    {d \in {[dirs |-> l, nfiles |-> n, nimages |-> n] :
                l \in AllListings, n \in [1..MaxClasses -> 0..MaxFiles]} :
        /\ \A c \in 1..MaxClasses : c \in Range(d.dirs) <=> d.nfiles[c] >= 1
        /\ SumTo(d.nfiles, MaxClasses) <= MaxFiles}

\* per-class file counts: the small ones and the documented 10, 20, 30
CountValues == (0..MaxCount) \cup {10, 20, 30}

Min2(a, b) == IF a <= b THEN a ELSE b

\* class directories 1..k in order, any counts; of the files of a directory
\* the first ImagesPerClass are images
WeightsData ==
    {[dirs |-> [i \in 1..k |-> i],
      nfiles |-> FilesIn([i \in 1..k |-> i], n),
      nimages |-> FilesIn([i \in 1..k |-> i],
                          [c \in 1..MaxClasses |-> Min2(n[c], ImagesPerClass)])] :
        k \in 1..MaxClasses, n \in [1..MaxClasses -> CountValues]}

\* one class directory of ImagesPerClass images
FitData ==
    {[dirs |-> <<1>>,
      nfiles |-> FilesIn(<<1>>, [c \in 1..MaxClasses |-> ImagesPerClass]),
      nimages |-> FilesIn(<<1>>, [c \in 1..MaxClasses |-> ImagesPerClass])]}

(***************************************************************************)
(* Specifications.                                                         *)
(***************************************************************************)
\* the script over every directory listing
InitPipeline ==
    /\ ScriptInit(BOOLEAN, PipelineData, {SmokeEpochs}, {SmokeEpochs}, BOOLEAN)
    /\ ApiInit
SpecPipeline == InitPipeline /\ [][ScriptNext]_vars

\* the script over every small dataset and every listing order of its files
InitSplit ==
    /\ ScriptInit({TRUE}, SplitData, {SmokeEpochs}, {SmokeEpochs}, {FALSE})
    /\ ApiInit
SpecSplit == InitSplit /\ [][ScriptNext]_vars

\* the script over every vector of file counts
InitWeights ==
    /\ ScriptInit({TRUE}, WeightsData, {SmokeEpochs}, {SmokeEpochs}, {FALSE})
    /\ ApiInit
SpecWeights == InitWeights /\ [][ScriptNext]_vars

\* the script over every EPOCHS, EPOCHS_FINE and course of validation accuracy
InitFit ==
    /\ ScriptInit(BOOLEAN, FitData, 0..MaxEpochs, 0..MaxEpochsFine, BOOLEAN)
    /\ ApiInit
SpecFit == InitFit /\ [][ScriptNext]_vars

\* the service, the script not started
InitApi ==
    /\ ScriptInit({TRUE}, FitData, {SmokeEpochs}, {SmokeEpochs}, {FALSE})
    /\ ApiInit
SpecApi == InitApi /\ [][ApiNext]_vars

(***************************************************************************)
(* Properties.                                                             *)
(***************************************************************************)
Written(path) == {i \in 1..Len(writes) : writes[i].path = path}

Samples == Range(train_ds.samples) \cup Range(val_ds.samples)

\* C1: every class_names.txt written has exactly num_classes lines, as many
\* as the final dense layer has units and the class-weight table has
\* entries, and its line i (from 0) is the class directory whose files carry
\* the integer label i and whose file count gave class weight i; the list
\* read from the dataset is the one exported, unchanged since loading.
C1_NamesFileMatchesLabels ==
    /\ \A i \in Written("class_names.txt") :
         LET lines == writes[i].lines
         IN  /\ Len(lines) = num_classes
             /\ Len(lines) = model.units
             /\ DOMAIN class_weight = 0..(Len(lines) - 1)
             /\ \A s \in Samples : lines[s.label + 1] = s.file[1]
             /\ \A k \in 1..Len(lines) : counts[k] = nfiles[lines[k]]
             /\ lines = train_ds.class_names
    /\ pc \notin {"check_dir", "load_train", "load_val", "class_names"} /\ exit_code # 1
         => class_names = train_ds.class_names /\ num_classes = Len(class_names)

\* C1 witness: the file is written for class directories the OS listed in
\* another order than the one the labels follow
C1_Witness ==
    /\ Written("class_names.txt") # {}
    /\ Len(dirs) >= 2
    /\ dirs # class_names

\* C2: with the dataset directory missing, once the check has run the
\* script has exited with status 1 and the diagnostic printed; nothing was
\* loaded, no fit was entered and no file was written.
C2_MissingDirectoryExits ==
    ~dirExists =>
        /\ pc \in {"check_dir", "exited"}
        /\ pc = "exited" => exit_code = 1 /\ Len(stdout) >= 1
                             /\ stdout[1] = "Missing dataset directory"
        /\ train_ds = NoDataset /\ val_ds = NoDataset
        /\ phase = 0 /\ history[1] = <<>> /\ history[2] = <<>>
        /\ writes = <<>>

C2_Witness == ~dirExists /\ pc = "exited" /\ exit_code = 1

\* C9: whatever was requested before, the response to GET /health is 200
\* with exactly {"status": "healthy"} (and the response to GET / is the
\* welcome object).
C9_HealthAlwaysHealthy ==
    requests # <<>> =>
        /\ response.code = 200
        /\ requests[Len(requests)] = "/health" => response.body = {<<"status", "healthy">>}
        /\ requests[Len(requests)] = "/" =>
              response.body = {<<"message", "Welcome to AgriShield AI Backend">>,
                               <<"status", "active">>}

C9_Witness ==
    /\ Len(requests) >= 4
    /\ requests[Len(requests)] = "/health"
    /\ "/" \in Range(requests)
    /\ \E i \in 1..(Len(requests) - 1) : requests[i] = "/health"

\* the files of the class directories the script looks at
TotalFiles == SumTo([k \in 1..Len(class_names) |-> nfiles[class_names[k]]], Len(class_names))

WeightsComputed == pc \notin {"check_dir", "load_train", "load_val", "class_names",
                               "base_model", "freeze", "assemble", "compile",
                               "callbacks", "weights"} /\ exit_code # 1

\* C4: once the table is computed, for every class index i the weight w
\* (a fraction num/den) satisfies w * (num_classes * max(count_i, 1)) =
\* total, total being the sum of all counts; a class with no file gets
\* total / num_classes; computing the table never divides by zero (the
\* script never stops at lines 83-93); counts 10, 20, 30 give 2, 1, 2/3.
C4_ClassWeightFormula ==
    /\ WeightsComputed =>
         /\ total = TotalFiles
         /\ \A i \in 0..(num_classes - 1) :
              LET c == nfiles[class_names[i + 1]]
                  w == class_weight[i]
              IN  /\ w[2] > 0
                  /\ w[1] * (num_classes * (IF c > 1 THEN c ELSE 1)) = total * w[2]
                  /\ Gcd(w[1], w[2]) = 1
                  /\ c = 0 => w[1] * num_classes = total * w[2]
         /\ counts = <<10, 20, 30>> =>
              class_weight[0] = <<2, 1>> /\ class_weight[1] = <<1, 1>>
              /\ class_weight[2] = <<2, 3>>
    /\ exit_code = 1 => counts = <<>>

\* C4 witness: a table computed for a dataset with an empty class directory
\* next to directories of 10 and 30 files
C4_Witness ==
    /\ WeightsComputed
    /\ \E i \in 1..Len(counts) : counts[i] = 0
    /\ \E i \in 1..Len(counts) : counts[i] = 10
    /\ \E i \in 1..Len(counts) : counts[i] = 30

FilesOf(ds) == {ds.samples[i].file : i \in 1..Len(ds.samples)}

\* the class directories in ascending order, built without sorting
Ascending(S) ==
    CHOOSE q \in [1..Cardinality(S) -> S] :
        \A i, j \in 1..Cardinality(S) : i < j => q[i] < q[j]

\* C8: once both subsets are loaded they are disjoint, without repeats, and
\* together hold every image file, the validation subset holding
\* int(0.2 * n) of the n files; and whatever the orders in which the OS
\* listed the directories and the files to the two calls, the subsets are
\* those of the run to which everything is listed in ascending order: any
\* two runs over the same dataset yield the same subsets in the same order.
C8_SplitDeterministicPartition ==
    pc = "class_names" =>
        /\ FilesOf(train_ds) \cap FilesOf(val_ds) = {}
        /\ FilesOf(train_ds) \cup FilesOf(val_ds) = Files
        /\ Cardinality(FilesOf(train_ds)) = Len(train_ds.samples)
        /\ Cardinality(FilesOf(val_ds)) = Len(val_ds.samples)
        /\ 5 * Len(val_ds.samples) <= Cardinality(Files)
        /\ Cardinality(Files) < 5 * (Len(val_ds.samples) + 1)
        /\ LET l == Ascending(Range(dirs))
           IN  /\ train_ds = LoadTraining(l, Walk(l))
               /\ val_ds = LoadValidation(l, Walk(l))

\* C8 witness: both subsets loaded from a dataset of several classes
C8_Witness ==
    /\ pc = "class_names"
    /\ Len(dirs) >= 2
    /\ Len(val_ds.samples) >= 1
    /\ dirs # Ascending(Range(dirs))
    /\ \E s, t \in Range(train_ds.samples) : s.label # t.label

(***************************************************************************)
(* The course of a fit, read off its history of validation accuracies.     *)
(***************************************************************************)
MaxOf(h) == IF h = <<>> THEN -1 ELSE CHOOSE m \in Range(h) : \A x \in Range(h) : x <= m

\* epoch k did not improve on the best of the epochs before it
Failed(h, k) == h[k] <= MaxOf(SubSeq(h, 1, k - 1))

\* epoch k is the third in a row that did not improve
ThirdFailure(h, k) == k >= 3 /\ \A j \in (k - 2)..k : Failed(h, j)

\* the first epoch that reached the best accuracy of h
ArgBest(h) == CHOOSE k \in 1..Len(h) : h[k] = MaxOf(h) /\ \A j \in 1..(k - 1) : h[j] < h[k]

\* a fit with this history and this many epochs configured has ended
PhaseComplete(h, n) == Len(h) = n \/ (Len(h) >= 1 /\ ThirdFailure(h, Len(h)))

\* the fit of phase p has returned and no later fit has trained yet
FitReturned(p) ==
    IF p = 1 THEN pc \in {"unfreeze", "recompile", "fit2"}
    ELSE pc \in {"save", "write_names"} \/ exit_code = 0

\* C3: the fine-tune fit is entered only with the head-only fit complete
\* (epochs exhausted or stopped early), between the two only the unfreeze
\* and the recompile run, the export is reached only through a complete
\* fine-tune fit whatever EPOCHS and EPOCHS_FINE are, and once the
\* fine-tune fit is entered no head-only epoch is added.
C3_FineTuneFollowsHeadOnly ==
    /\ [](/\ phase = 2 => PhaseComplete(history[1], EPOCHS) /\ Len(history[1]) <= EPOCHS
          /\ pc \in {"unfreeze", "recompile", "fit2"} =>
                phase = 1 /\ PhaseComplete(history[1], EPOCHS)
          /\ pc \in {"save", "write_names"} \/ exit_code = 0 =>
                phase = 2 /\ PhaseComplete(history[2], EPOCHS_FINE)
          /\ phase = 1 => history[2] = <<>>)
    /\ [][phase = 2 => phase' = 2 /\ history'[1] = history[1]]_vars

\* C3 witness: the head-only fit stopped early and fine-tune epochs ran
C3_Witness ==
    /\ phase = 2
    /\ Len(history[1]) < EPOCHS
    /\ Len(history[2]) >= 1

\* C5: in each phase no epoch runs after the first epoch that is the third
\* in a row without improvement on the phase's best; a fit that returned
\* either stopped at such an epoch, the model then holding the weights of
\* the first epoch that reached the phase's best validation accuracy, or
\* ran exactly the configured number of epochs.
C5_EarlyStoppingPatience ==
    \A p \in {1, 2} :
        LET h == history[p]
        IN  /\ Len(h) <= Epochs(p)
            /\ \A k \in 1..(Len(h) - 1) : ~ThirdFailure(h, k)
            /\ FitReturned(p) => PhaseComplete(h, Epochs(p))
            /\ FitReturned(p) /\ Len(h) >= 1 /\ ThirdFailure(h, Len(h)) =>
                  model.weights = <<p, ArgBest(h)>>
            /\ FitReturned(p) /\ ~(Len(h) >= 1 /\ ThirdFailure(h, Len(h))) =>
                  Len(h) = Epochs(p)

\* C5 witness: the head-only fit returned before its configured epochs,
\* the model holding the weights of an epoch that was not the last
C5_Witness ==
    /\ pc = "unfreeze"
    /\ Len(history[1]) < EPOCHS
    /\ model.weights = <<1, ArgBest(history[1])>>
    /\ model.weights # <<1, Len(history[1])>>

BothPhasesComplete ==
    /\ phase = 2
    /\ PhaseComplete(history[1], EPOCHS)
    /\ PhaseComplete(history[2], EPOCHS_FINE)
    /\ pc \in {"write_names", "exited"}

\* C6 as stated: only the model file and class_names.txt are ever written,
\* each once, nothing before both phases are complete, the model first.
C6_OnlyTwoOutputsAtTheEnd ==
    /\ \A i \in 1..Len(writes) : writes[i].path \in {"OUTPUT_PATH", "class_names.txt"}
    /\ writes # <<>> => BothPhasesComplete
    /\ Cardinality(Written("OUTPUT_PATH")) <= 1
    /\ Cardinality(Written("class_names.txt")) <= 1
    /\ \A i \in Written("class_names.txt") : \E j \in Written("OUTPUT_PATH") : j < i
    /\ exit_code = 0 => Written("OUTPUT_PATH") # {} /\ Written("class_names.txt") # {}

\* C6 amended: the model file and class_names.txt are each written at most
\* once, exactly once in a run that exits 0, only with both phases complete
\* and the model file first, as the last two writes of the run; the only
\* other file written is best_model.h5, written by epochs of the training
\* phases, before the model file.
C6_OutputsAtTheEndBesideCheckpoints ==
    /\ \A i \in 1..Len(writes) :
         writes[i].path \in {"OUTPUT_PATH", "class_names.txt", "best_model.h5"}
    /\ Written("OUTPUT_PATH") \cup Written("class_names.txt") # {} => BothPhasesComplete
    /\ Cardinality(Written("OUTPUT_PATH")) <= 1
    /\ Cardinality(Written("class_names.txt")) <= 1
    /\ \A i \in Written("class_names.txt") : \E j \in Written("OUTPUT_PATH") : j < i
    /\ exit_code = 0 => /\ Len(writes) >= 2
                         /\ Written("OUTPUT_PATH") = {Len(writes) - 1}
                         /\ Written("class_names.txt") = {Len(writes)}
    /\ \A i \in Written("best_model.h5") :
         /\ \A j \in Written("OUTPUT_PATH") \cup Written("class_names.txt") : i < j
         /\ \E p \in {1, 2} : \E k \in 1..Len(history[p]) : writes[i].weights = <<p, k>>

\* C6 witness: a run that exited 0 and wrote best_model.h5 in both phases
C6_Witness ==
    /\ exit_code = 0
    /\ \E i, j \in Written("best_model.h5") :
         writes[i].weights[1] = 1 /\ writes[j].weights[1] = 2

\* C7: from the assembly of the model until the first fit has returned the
\* backbone is not trainable, and the first fit trains with it frozen; from
\* the second compile until the script ends it is trainable, and the second
\* fit trains it; once the model exists the flag changes only at line 103,
\* from frozen to trainable; the model saved at OUTPUT_PATH is the unfrozen
\* one.
C7_FrozenThenTrainable ==
    /\ [](/\ pc \in {"compile", "callbacks", "weights", "fit1", "epochs1", "unfreeze"} =>
                model.exists /\ ~base_model.trainable
          /\ pc \in {"callbacks", "weights", "fit1", "epochs1", "unfreeze"} =>
                ~model.compiled_trainable
          /\ pc \in {"fit2", "epochs2", "save", "write_names"} \/ exit_code = 0 =>
                base_model.trainable /\ model.compiled_trainable
          /\ \A i \in Written("OUTPUT_PATH") : writes[i].trainable)
    /\ [][model.exists /\ base_model'.trainable # base_model.trainable =>
            pc = "unfreeze" /\ pc' = "recompile" /\ base_model'.trainable]_vars

\* C7 witness: a run that trained in both phases and saved the model
C7_Witness ==
    /\ exit_code = 0
    /\ Len(history[1]) >= 1
    /\ Len(history[2]) >= 1
    /\ \E i \in Written("OUTPUT_PATH") : writes[i].trainable

\* the validation accuracies of the run so far, head-only epochs first
RunHistory == history[1] \o history[2]

\* the weights left by the i-th epoch of the run
RunEpoch(i) == IF i <= Len(history[1]) THEN <<1, i>> ELSE <<2, i - Len(history[1])>>

\* the last best_model.h5 written
LastCheckpoint == writes[CHOOSE i \in Written("best_model.h5") :
                            \A j \in Written("best_model.h5") : j <= i]

\* C10: the checkpointer's best is the best validation accuracy of the run
\* so far, both phases together, and never decreases, while the early
\* stopper's best is the best of the current phase alone; best_model.h5 is
\* written by a fine-tune epoch only if its validation accuracy exceeds
\* every head-only epoch's; in a run that exits 0 after at least one epoch
\* best_model.h5 holds the weights of the first epoch that reached the
\* run's highest validation accuracy (and is absent if no epoch ran).
C10_CheckpointBestSpansPhases ==
    /\ [](/\ mc.best = MaxOf(RunHistory)
          /\ pc \in {"epochs1", "epochs2"} => es.best = MaxOf(history[phase])
          /\ \A i \in Written("best_model.h5") :
                \E p \in {1, 2} : \E k \in 1..Len(history[p]) :
                    /\ writes[i].weights = <<p, k>>
                    /\ history[p][k] > MaxOf(SubSeq(history[p], 1, k - 1))
                    /\ p = 2 => history[p][k] > MaxOf(history[1])
          /\ exit_code = 0 =>
                IF RunHistory = <<>> THEN Written("best_model.h5") = {}
                ELSE /\ Written("best_model.h5") # {}
                     /\ LastCheckpoint.weights = RunEpoch(ArgBest(RunHistory)))
    /\ [][mc'.best >= mc.best]_vars

\* C10 witness: a run whose fine-tune epochs never beat the head-only best,
\* so that best_model.h5 holds head-only weights and differs from the model
\* saved at OUTPUT_PATH
C10_Witness ==
    /\ exit_code = 0
    /\ Len(history[2]) >= 1
    /\ Written("best_model.h5") # {}
    /\ LastCheckpoint.weights[1] = 1
    /\ \E i \in Written("OUTPUT_PATH") :
         writes[i].weights # LastCheckpoint.weights /\ writes[i].weights[1] = 2

=============================================================================
